---------------------------- MODULE Spec2Model ----------------------------
(***************************************************************************)
(* A model of two parts of the engine:                                     *)
(*                                                                         *)
(*   - examples/async.rs: a loader thread builds a scene and hands it to   *)
(*     the main loop through a mutex-guarded SceneLoadContext              *)
(*     (specification Spec);                                               *)
(*   - src/renderer/debug_renderer.rs: the DebugRenderer's line list and   *)
(*     its render pass (specification SpecRender).                         *)
(*                                                                         *)
(* f32 progress values are kept as hundredths (0.33 is 33), angles as      *)
(* whole degrees.                                                          *)
(***************************************************************************)
EXTENDS Integers, Sequences, FiniteSets, TLC

VARIABLES
    \* ---- examples/async.rs: SceneLoadContext behind Arc<Mutex<..>> ----
    ctx_lock,        \* holder of the context mutex: "free", "main", "loader"
    data,            \* SceneLoadContext::data
    message,         \* SceneLoadContext::message
    progress,        \* SceneLoadContext::progress (hundredths)
    \* ---- Arc<Mutex<ResourceManager>> ----
    rm_lock,         \* holder of the resource manager mutex
    rm_poisoned,     \* a thread panicked while holding it
    \* ---- loader thread (closure of create_scene_async) ----
    l_pc,            \* position of the loader thread
    l_guard,         \* it holds the temporary MutexGuard of its statement
    l_scene,         \* its local `scene` (None before it exists and once moved)
    l_model_handle,  \* its local `model_handle`
    l_walk_animation,\* its local `walk_animation`
    load_error,      \* which resource request failed, if any
    \* ---- main thread ----
    m_pc,            \* position of the main thread
    polled,          \* outcome of try_lock in the current tick
    scene_handle, model_handle, walk_animation,
    engine_scenes,   \* engine.scenes
    model_angle,     \* degrees
    input_controller,
    ui,              \* progress bar and progress text
    ticks,           \* completed iterations of the fixed-step loop, counted
                     \* up to MaxTicks
    accessed,        \* the current iteration borrowed engine.scenes[scene_handle]
    \* ---- history ----
    acquired,        \* per thread, the mutexes it has locked so far
    adds,            \* executions of engine.scenes.add
    data_writes,     \* executions of the loader's write of data
    \* ---- src/renderer/debug_renderer.rs ----
    lines,           \* DebugRenderer::lines
    vertices,        \* DebugRenderer::vertices
    line_indices,    \* DebugRenderer::line_indices
    geometry,        \* contents of DebugRenderer::geometry
    shader,          \* bound program and the wvp uniform
    gl,              \* graphics state
    scenes,          \* the SceneContainer handed to render
    cmds,            \* the steps of the last operation, in order
    ret,             \* value returned by the last operation
    \* ---- Pool<Node>, Handle<Node>, Pose ----
    node_pool,       \* the slots of the pool: generation and payload
    issued,          \* history: the handles add returned, and what became of them
    pose,            \* the (node handle, local transform) pairs of get_pose
    p_last,          \* the last pool operation
    \* ---- editor: signal property commands ----
    signals,         \* the signals of the animation, in order
    undo_stack,      \* the executed commands, the last one on top
    snapshots,       \* history: the signals before each executed command
    s_last           \* the last command operation and the id it addressed

asyncVars == << ctx_lock, data, message, progress, rm_lock, rm_poisoned, l_pc,
                l_guard, l_scene, l_model_handle, l_walk_animation, load_error, m_pc,
                polled, scene_handle, model_handle, walk_animation,
                engine_scenes, model_angle, input_controller, ui, ticks,
                accessed, acquired, adds, data_writes >>

renderVars == << lines, vertices, line_indices, geometry, shader, gl, scenes,
                 cmds, ret >>

\* A pool of graph nodes, handles into it and a pose (specification SpecPool).
poolVars == << node_pool, issued, pose, p_last >>

\* The signals of one animation and the editor's command stack
\* (specification SpecSignal).
signalVars == << signals, undo_stack, snapshots, s_last >>

vars == << asyncVars, renderVars, poolVars, signalVars >>

-----------------------------------------------------------------------------
(* Bounds *)

MaxTicks == 3
MaxAnims == 1
MaxLines == 2
MaxScenes == 2
MaxAdds == 3
MaxCommands == 2

-----------------------------------------------------------------------------
(* examples/async.rs: data *)

\* Option<T>: None is the empty sequence, Some(x) the sequence of x alone.
None == << >>
Some(x) == << x >>
Unwrap(o) == o[1]

\* Handle::NONE
HandleNONE == 0

\* Scene::new(): an empty graph, no animations.
Scene_new == [camera |-> FALSE, model |-> FALSE, scaled |-> FALSE,
              animations |-> 0, posed |-> FALSE, rotation |-> 0]

\* struct GameScene
GameScene(s, mh, wa) == [scene |-> s, model_handle |-> mh, walk_animation |-> wa]

\* The reports of the model and of the animation with their values exchanged.
Report_swapped(pc) ==
    CASE pc = "report_camera"    -> [progress |-> 0,   message |-> "Creating camera..."]
      [] pc = "report_model"     -> [progress |-> 66,  message |-> "Loading model..."]
      [] pc = "report_animation" -> [progress |-> 33,  message |-> "Loading animation..."]
      [] pc = "report_done"      -> [progress |-> 100, message |-> "Done"]

\* The messages and progress values of the four report_progress calls.
Report(pc) ==
    CASE pc = "report_camera"    -> [progress |-> 0,   message |-> "Creating camera..."]
      [] pc = "report_model"     -> [progress |-> 33,  message |-> "Loading model..."]
      [] pc = "report_animation" -> [progress |-> 66,  message |-> "Loading animation..."]
      [] pc = "report_done"      -> [progress |-> 100, message |-> "Done"]

ReportPcs == {"report_camera", "report_model", "report_animation", "report_done"}

\* The statements of the loader closure, in program order.
LoaderProgram == << "Scene_new", "lock_resource_manager",
                    "report_camera", "add_camera",
                    "report_model", "request_model", "instantiate_geometry",
                    "set_scale",
                    "report_animation", "request_animation",
                    "retarget_animations",
                    "report_done", "write_data", "exit", "done" >>

IndexOf(seq, x) == CHOOSE i \in 1..Len(seq) : seq[i] = x

\* The final report and the write of data in the other order.
L_after_data_first(pc) ==
    CASE pc = "retarget_animations" -> "write_data"
      [] pc = "write_data"          -> "report_done"
      [] pc = "report_done"         -> "exit"
      [] OTHER -> LoaderProgram[IndexOf(LoaderProgram, pc) + 1]

\* A loader that hands the scene over as soon as the model is scaled.
L_after_early(pc) ==
    IF pc = "set_scale" THEN "write_data"
    ELSE LoaderProgram[IndexOf(LoaderProgram, pc) + 1]

\* The statement that follows pc in the closure.
L_after(pc) == LoaderProgram[IndexOf(LoaderProgram, pc) + 1]

\* Option::take on a value that is not handed back.
Option_peek(d) == [taken |-> d, left |-> d]

\* Option::take: the value, and None left in its place.
Option_take(d) == [taken |-> d, left |-> None]

\* A blocking Mutex::lock in place of try_lock.
Mutex_lock(holder) == IF holder = "free" THEN "Ok" ELSE "Wait"

\* Mutex::try_lock: Ok when free, Err(WouldBlock) otherwise, never waits.
Mutex_try_lock(holder) == IF holder = "free" THEN "Ok" ELSE "WouldBlock"

\* A guard bound to a local that lives to the end of the closure.
Guard_keep(holder) == holder

\* The temporary MutexGuard is dropped at the end of the statement.
Guard_drop(holder) == "free"

Acquire(t, m) == acquired' = [acquired EXCEPT ![t] = @ \cup {m}]

-----------------------------------------------------------------------------
(* examples/async.rs: the loader thread, lines 147-212 *)

\* A panic unwinds the closure: the resource manager guard is dropped while
\* panicking, which poisons that mutex; no context guard is alive at an unwrap.
Panic(err) ==
    /\ l_pc' = "panicked"
    /\ load_error' = err
    /\ rm_lock' = IF rm_lock = "loader" THEN "free" ELSE rm_lock
    /\ rm_poisoned' = (rm_poisoned \/ rm_lock = "loader")
    /\ l_scene' = None

\* let mut scene = Scene::new();
L_Scene_new ==
    /\ l_pc = "Scene_new"
    /\ l_scene' = Some(Scene_new)
    /\ l_pc' = L_after(l_pc)
    /\ UNCHANGED << ctx_lock, data, message, progress, rm_lock, rm_poisoned,
                    l_guard, l_model_handle, l_walk_animation, load_error,
                    m_pc, polled, scene_handle, model_handle, walk_animation,
                    engine_scenes, model_angle, input_controller, ui, ticks,
                    acquired, adds, data_writes, accessed,
                    renderVars, poolVars, signalVars >>

\* let mut resource_manager = resource_manager.lock().unwrap();
\* The guard is a local of the closure: it lives until the closure ends.
\* (No thread can have panicked with this mutex held before, so unwrap passes.)
L_lock_resource_manager ==
    /\ l_pc = "lock_resource_manager"
    /\ rm_lock = "free"
    /\ rm_lock' = "loader"
    /\ Acquire("loader", "resource_manager")
    /\ l_pc' = L_after(l_pc)
    /\ UNCHANGED << ctx_lock, data, message, progress, rm_poisoned, l_guard,
                    l_scene, l_model_handle, l_walk_animation, load_error,
                    m_pc, polled, scene_handle, model_handle, walk_animation,
                    engine_scenes, model_angle, input_controller, ui, ticks,
                    adds, data_writes, accessed,
                    renderVars, poolVars, signalVars >>

\* context.lock().unwrap() of a report_progress statement or of the write of
\* data: blocks until the mutex is free.
L_lock_context ==
    /\ l_pc \in ReportPcs \cup {"write_data"}
    /\ ~l_guard
    /\ ctx_lock = "free"
    /\ ctx_lock' = "loader"
    /\ l_guard' = TRUE
    /\ Acquire("loader", "context")
    /\ UNCHANGED << data, message, progress, rm_lock, rm_poisoned, l_pc,
                    l_scene, l_model_handle, l_walk_animation, load_error,
                    m_pc, polled, scene_handle, model_handle, walk_animation,
                    engine_scenes, model_angle, input_controller, ui, ticks,
                    adds, data_writes, accessed,
                    renderVars, poolVars, signalVars >>

\* .report_progress(p, msg); the guard is dropped at the end of the statement.
L_report_progress ==
    /\ l_pc \in ReportPcs
    /\ l_guard
    /\ progress' = Report(l_pc).progress
    /\ message' = Report(l_pc).message
    /\ ctx_lock' = Guard_drop(ctx_lock)
    /\ l_guard' = FALSE
    /\ l_pc' = L_after(l_pc)
    /\ UNCHANGED << data, rm_lock, rm_poisoned, l_scene, l_model_handle,
                    l_walk_animation, load_error, m_pc, polled, scene_handle,
                    model_handle, walk_animation, engine_scenes, model_angle,
                    input_controller, ui, ticks, acquired, adds, data_writes, accessed,
                    renderVars, poolVars, signalVars >>

\* scene.graph.add_node(Node::Camera(camera));
L_add_camera ==
    /\ l_pc = "add_camera"
    /\ l_scene' = [l_scene EXCEPT ![1].camera = TRUE]
    /\ l_pc' = L_after(l_pc)
    /\ UNCHANGED << ctx_lock, data, message, progress, rm_lock, rm_poisoned,
                    l_guard, l_model_handle, l_walk_animation, load_error,
                    m_pc, polled, scene_handle, model_handle, walk_animation,
                    engine_scenes, model_angle, input_controller, ui, ticks,
                    acquired, adds, data_writes, accessed,
                    renderVars, poolVars, signalVars >>

\* resource_manager.request_model(path).unwrap(), for the model (line 174)
\* and for the animation (line 192): None when the file is missing or does
\* not parse, and unwrap panics on None.
L_request_model ==
    /\ l_pc \in {"request_model", "request_animation"}
    /\ \E found \in BOOLEAN :
          IF found
          THEN /\ l_pc' = L_after(l_pc)
               /\ UNCHANGED << rm_lock, rm_poisoned, l_scene, load_error >>
          ELSE Panic(l_pc)
    /\ UNCHANGED << ctx_lock, data, message, progress, l_guard,
                    l_model_handle, l_walk_animation, m_pc, polled,
                    scene_handle, model_handle, walk_animation, engine_scenes,
                    model_angle, input_controller, ui, ticks, acquired, adds,
                    data_writes, accessed,
                    renderVars, poolVars, signalVars >>

\* let model_handle = model_resource.lock().unwrap().instantiate_geometry(&mut scene);
L_instantiate_geometry ==
    /\ l_pc = "instantiate_geometry"
    /\ l_scene' = [l_scene EXCEPT ![1].model = TRUE]
    /\ l_model_handle' = 1
    /\ l_pc' = L_after(l_pc)
    /\ UNCHANGED << ctx_lock, data, message, progress, rm_lock, rm_poisoned,
                    l_guard, l_walk_animation, load_error, m_pc, polled,
                    scene_handle, model_handle, walk_animation, engine_scenes,
                    model_angle, input_controller, ui, ticks, acquired, adds,
                    data_writes, accessed,
                    renderVars, poolVars, signalVars >>

\* scene.graph[model_handle].local_transform_mut().set_scale(..);
L_set_scale ==
    /\ l_pc = "set_scale"
    /\ l_scene' = [l_scene EXCEPT ![1].scaled = TRUE]
    /\ l_pc' = L_after(l_pc)
    /\ UNCHANGED << ctx_lock, data, message, progress, rm_lock, rm_poisoned,
                    l_guard, l_model_handle, l_walk_animation, load_error,
                    m_pc, polled, scene_handle, model_handle, walk_animation,
                    engine_scenes, model_angle, input_controller, ui, ticks,
                    acquired, adds, data_writes, accessed,
                    renderVars, poolVars, signalVars >>

\* *walk_animation_resource.lock().unwrap()
\*     .retarget_animations(model_handle, &mut scene).get(0).unwrap();
\* n is the number of animations the resource holds; get(0) of none panics.
L_retarget_animations ==
    /\ l_pc = "retarget_animations"
    /\ \E n \in 0..MaxAnims :
          IF n > 0
          THEN /\ l_scene' = [l_scene EXCEPT ![1].animations = n]
               /\ l_walk_animation' = 1
               /\ l_pc' = L_after(l_pc)
               /\ UNCHANGED << rm_lock, rm_poisoned, load_error >>
          ELSE /\ Panic("no_animation")
               /\ UNCHANGED l_walk_animation
    /\ UNCHANGED << ctx_lock, data, message, progress, l_guard,
                    l_model_handle, m_pc, polled, scene_handle, model_handle,
                    walk_animation, engine_scenes, model_angle,
                    input_controller, ui, ticks, acquired, adds, data_writes, accessed,
                    renderVars, poolVars, signalVars >>

\* context.lock().unwrap().data = Some(GameScene { scene, model_handle,
\* walk_animation }): the scene moves out of the closure's local.
L_write_data ==
    /\ l_pc = "write_data"
    /\ l_guard
    /\ data' = Some(GameScene(Unwrap(l_scene), l_model_handle,
                               l_walk_animation))
    /\ l_scene' = None
    /\ data_writes' = data_writes + 1
    /\ ctx_lock' = Guard_drop(ctx_lock)
    /\ l_guard' = FALSE
    /\ l_pc' = L_after(l_pc)
    /\ UNCHANGED << message, progress, rm_lock, rm_poisoned, l_model_handle,
                    l_walk_animation, load_error, m_pc, polled, scene_handle,
                    model_handle, walk_animation, engine_scenes, model_angle,
                    input_controller, ui, ticks, acquired, adds, accessed,
                    renderVars, poolVars, signalVars >>

\* The closure ends: its locals are dropped, the resource manager guard too.
L_exit ==
    /\ l_pc = "exit"
    /\ rm_lock' = IF rm_lock = "loader" THEN "free" ELSE rm_lock
    /\ l_pc' = L_after(l_pc)
    /\ UNCHANGED << ctx_lock, data, message, progress, rm_poisoned, l_guard,
                    l_scene, l_model_handle, l_walk_animation, load_error,
                    m_pc, polled, scene_handle, model_handle, walk_animation,
                    engine_scenes, model_angle, input_controller, ui, ticks,
                    acquired, adds, data_writes, accessed,
                    renderVars, poolVars, signalVars >>

Loader ==
    \/ L_Scene_new
    \/ L_lock_resource_manager
    \/ L_lock_context
    \/ L_report_progress
    \/ L_add_camera
    \/ L_request_model
    \/ L_instantiate_geometry
    \/ L_set_scale
    \/ L_retarget_animations
    \/ L_write_data
    \/ L_exit

-----------------------------------------------------------------------------
(* examples/async.rs: the main thread, lines 223-410 *)

\* engine.resource_manager.lock().unwrap().set_textures_path("examples/data");
M_set_textures_path ==
    /\ m_pc = "set_textures_path"
    /\ rm_lock = "free"
    /\ Acquire("main", "resource_manager")
    /\ m_pc' = "create_scene_async"
    /\ UNCHANGED << ctx_lock, data, message, progress, rm_lock, rm_poisoned,
                    l_pc, l_guard, l_scene, l_model_handle, l_walk_animation,
                    load_error, polled, scene_handle, model_handle,
                    walk_animation, engine_scenes, model_angle,
                    input_controller, ui, ticks, adds, data_writes, accessed,
                    renderVars, poolVars, signalVars >>

\* let game_scene = create_scene_async(engine.resource_manager.clone());
\* creates the context, spawns the loader and returns at once.
M_create_scene_async ==
    /\ m_pc = "create_scene_async"
    /\ data' = None
    /\ message' = "Starting.."
    /\ progress' = 0
    /\ l_pc' = LoaderProgram[1]
    /\ m_pc' = "loop"
    /\ UNCHANGED << ctx_lock, rm_lock, rm_poisoned, l_guard, l_scene,
                    l_model_handle, l_walk_animation, load_error, polled,
                    scene_handle, model_handle, walk_animation, engine_scenes,
                    model_angle, input_controller, ui, ticks, acquired, adds,
                    data_writes, accessed,
                    renderVars, poolVars, signalVars >>

\* Event::DeviceEvent: the A and D keys set the input controller.
M_device_event ==
    /\ m_pc = "loop"
    /\ \E key \in {"A", "D"}, pressed \in BOOLEAN :
          input_controller' =
              IF key = "A"
              THEN [input_controller EXCEPT !.rotate_left = pressed]
              ELSE [input_controller EXCEPT !.rotate_right = pressed]
    /\ UNCHANGED << ctx_lock, data, message, progress, rm_lock, rm_poisoned,
                    l_pc, l_guard, l_scene, l_model_handle, l_walk_animation,
                    load_error, m_pc, polled, scene_handle, model_handle,
                    walk_animation, engine_scenes, model_angle, ui, ticks,
                    acquired, adds, data_writes, accessed,
                    renderVars, poolVars, signalVars >>

\* if let Ok(mut load_context) = game_scene.try_lock() { .. }: one iteration
\* of the fixed-step loop starts with the poll of the context. The loop runs
\* for as long as the window lives.
M_try_lock ==
    /\ m_pc = "loop"
    /\ LET r == Mutex_try_lock(ctx_lock) IN
         /\ r # "Wait"
         /\ IF r = "Ok"
            THEN /\ ctx_lock' = "main"
                 /\ Acquire("main", "context")
                 /\ polled' = "locked"
                 /\ m_pc' = "take_data"
            ELSE /\ polled' = "skipped"
                 /\ m_pc' = "update_scene"
                 /\ UNCHANGED << ctx_lock, acquired >>
    /\ UNCHANGED << data, message, progress, rm_lock, rm_poisoned, l_pc,
                    l_guard, l_scene, l_model_handle, l_walk_animation,
                    load_error, scene_handle, model_handle, walk_animation,
                    engine_scenes, model_angle, input_controller, ui, ticks,
                    adds, data_writes, accessed,
                    renderVars, poolVars, signalVars >>

\* if let Some(game_scene) = load_context.data.take() { .. }
M_take_data ==
    /\ m_pc = "take_data"
    /\ LET t == Option_take(data) IN
         /\ data' = t.left
         /\ IF t.taken # None
            THEN /\ engine_scenes' = Append(engine_scenes, Unwrap(t.taken).scene)
                 /\ scene_handle' = Len(engine_scenes) + 1
                 /\ model_handle' = Unwrap(t.taken).model_handle
                 /\ walk_animation' = Unwrap(t.taken).walk_animation
                 /\ adds' = adds + 1
                 /\ ui' = [ui EXCEPT !.visible = FALSE]
            ELSE UNCHANGED << engine_scenes, scene_handle, model_handle,
                              walk_animation, adds, ui >>
    /\ m_pc' = "report_ui"
    /\ UNCHANGED << ctx_lock, message, progress, rm_lock, rm_poisoned, l_pc,
                    l_guard, l_scene, l_model_handle, l_walk_animation,
                    load_error, polled, model_angle, input_controller, ticks,
                    acquired, data_writes, accessed,
                    renderVars, poolVars, signalVars >>

\* progress_bar.set_progress(load_context.progress); progress_text.set_text(..)
\* and the end of the if let: load_context is dropped.
M_report_ui ==
    /\ m_pc = "report_ui"
    /\ ui' = [ui EXCEPT !.progress = progress, !.text = message]
    /\ ctx_lock' = "free"
    /\ m_pc' = "update_scene"
    /\ UNCHANGED << data, message, progress, rm_lock, rm_poisoned, l_pc,
                    l_guard, l_scene, l_model_handle, l_walk_animation,
                    load_error, polled, scene_handle, model_handle,
                    walk_animation, engine_scenes, model_angle,
                    input_controller, ticks, acquired, adds, data_writes, accessed,
                    renderVars, poolVars, signalVars >>

\* model_angle after the rotation of one tick; the angle is kept as the
\* rotation it denotes, within one turn.
Rotate(angle, ic) ==
    IF ic.rotate_left THEN (angle - 5) % 360
    ELSE IF ic.rotate_right THEN (angle + 5) % 360
    ELSE angle

\* A check that lets every iteration through.
Handle_always(h) == TRUE

\* Handle::is_some
Handle_is_some(h) == h # HandleNONE

\* if scene_handle.is_some() { apply the pose, rotate the model }
\* (engine.scenes[h] with a handle that is not in the container panics).
M_update_scene ==
    /\ m_pc = "update_scene"
    /\ IF Handle_is_some(scene_handle)
       THEN /\ accessed' = TRUE
            /\ IF scene_handle \in DOMAIN engine_scenes
               THEN /\ model_angle' = Rotate(model_angle, input_controller)
                    /\ engine_scenes' =
                          [engine_scenes EXCEPT ![scene_handle] =
                              [@ EXCEPT !.posed = TRUE,
                                        !.rotation = model_angle']]
                    /\ m_pc' = "engine_update"
               ELSE /\ m_pc' = "panicked"
                    /\ UNCHANGED << model_angle, engine_scenes >>
       ELSE /\ m_pc' = "engine_update"
            /\ UNCHANGED << model_angle, engine_scenes, accessed >>
    /\ UNCHANGED << ctx_lock, data, message, progress, rm_lock, rm_poisoned,
                    l_pc, l_guard, l_scene, l_model_handle, l_walk_animation,
                    load_error, polled, scene_handle, model_handle,
                    walk_animation, input_controller, ui, ticks, acquired,
                    adds, data_writes, renderVars, poolVars, signalVars >>

\* engine.update(fixed_timestep): the end of the iteration.
M_engine_update ==
    /\ m_pc = "engine_update"
    /\ ticks' = IF ticks < MaxTicks THEN ticks + 1 ELSE ticks
    /\ polled' = "none"
    /\ accessed' = FALSE
    /\ m_pc' = "loop"
    /\ UNCHANGED << ctx_lock, data, message, progress, rm_lock, rm_poisoned,
                    l_pc, l_guard, l_scene, l_model_handle, l_walk_animation,
                    load_error, scene_handle, model_handle, walk_animation,
                    engine_scenes, model_angle, input_controller, ui,
                    acquired, adds, data_writes, renderVars, poolVars,
                    signalVars >>

Main ==
    \/ M_set_textures_path
    \/ M_create_scene_async
    \/ M_device_event
    \/ M_try_lock
    \/ M_take_data
    \/ M_report_ui
    \/ M_update_scene
    \/ M_engine_update

-----------------------------------------------------------------------------
(* src/renderer/debug_renderer.rs: data *)

\* Line { begin, end, color }: the lines the model draws from.
LinePalette ==
    { [begin |-> <<0, 0, 0>>, end |-> <<1, 0, 0>>,
       color |-> [r |-> 255, g |-> 0, b |-> 0, a |-> 255]],
      [begin |-> <<0, 1, 0>>, end |-> <<0, 1, 2>>,
       color |-> [r |-> 0, g |-> 128, b |-> 255, a |-> 64]] }

\* Color into u32: the four unsigned bytes of Vertex::color, lowest first
\* (the attribute is UnsignedByte4, normalized).
Color_into_u32(c) == << c.r, c.g, c.b, c.a >>

Vertex(position, color) == [position |-> position, color |-> color]

\* Nodes of a scene graph; a camera carries its view-projection matrix.
Camera(m) == [kind |-> "Camera", view_projection |-> m]
Mesh == [kind |-> "Mesh", view_projection |-> "none"]

\* The graphs the model draws from: pool slots in pool order, None a free one.
GraphPalette ==
    { << Some(Mesh) >>,
      << Some(Camera("vpA")) >>,
      << None, Some(Mesh), Some(Camera("vpB")), Some(Camera("vpA")) >> }

\* Graphics state left behind by other passes.
\* Between them they differ from the state of the debug pass in every field.
GLPalette ==
    { [line_width |-> 1, stencil_test |-> TRUE, color_mask |-> FALSE,
       depth_test |-> FALSE, depth_mask |-> TRUE, blend |-> TRUE,
       cull_face |-> TRUE],
      [line_width |-> 3, stencil_test |-> FALSE, color_mask |-> TRUE,
       depth_test |-> TRUE, depth_mask |-> FALSE, blend |-> FALSE,
       cull_face |-> TRUE] }

\* gl::LineWidth(2.0)
LineWidth == 2

\* Pool::iter / Graph::linear_iter: the occupied slots, in pool order.
linear_iter(pool) == SelectSeq(pool, LAMBDA slot : slot # None)

\* Node::is_camera
is_camera(node) == node.kind = "Camera"

\* Camera::get_view_projection_matrix
get_view_projection_matrix(camera) == camera.view_projection

RECURSIVE FindFrom(_, _)
\* Iterator::find from position k on: the first node that is a camera.
FindFrom(nodes, k) ==
    IF k > Len(nodes) THEN None
    ELSE IF is_camera(Unwrap(nodes[k])) THEN nodes[k]
    ELSE FindFrom(nodes, k + 1)

RECURSIVE FindLastFrom(_, _)
FindLastFrom(nodes, k) ==
    IF k < 1 THEN None
    ELSE IF is_camera(Unwrap(nodes[k])) THEN nodes[k]
    ELSE FindLastFrom(nodes, k - 1)

\* A search that returns the last camera of the graph.
find_camera_last(graph) == FindLastFrom(linear_iter(graph), Len(linear_iter(graph)))

\* scene.graph.linear_iter().find(|node| node.is_camera())
find_camera(graph) == FindFrom(linear_iter(graph), 1)

\* A buffer that is not emptied.
Vec_keep(v) == v

\* Vec::clear
Vec_clear(v) == << >>

RECURSIVE StageLines(_, _, _)
\* for line in self.lines.iter() { push two vertices and one index pair }
\* st is [vertices, line_indices, i]; i is a u32 and stays far below 2^32
\* (it is twice the number of lines).
StageLines(ls, k, st) ==
    IF k > Len(ls) THEN st
    ELSE LET line == ls[k]
             color == Color_into_u32(line.color)
             v1 == Append(st.vertices, Vertex(line.begin, color))
             v2 == Append(v1, Vertex(line.end, color))
         IN StageLines(ls, k + 1,
                       [vertices |-> v2,
                        line_indices |->
                            Append(st.line_indices, << st.i, st.i + 1 >>),
                        i |-> st.i + 2])

\* The staging of one pass: both buffers cleared, then filled from the lines.
Stage(ls, vs, is) ==
    StageLines(ls, 1,
               [vertices |-> Vec_clear(vs), line_indices |-> Vec_clear(is),
                i |-> 0])

\* A state setup that leaves blending as it finds it.
SetRenderState_inherit_blend(g) ==
    [line_width |-> LineWidth, stencil_test |-> FALSE, color_mask |-> TRUE,
     depth_test |-> TRUE, depth_mask |-> FALSE, blend |-> g.blend,
     cull_face |-> FALSE]

\* The unsafe block of lines 121-129.
SetRenderState(g) ==
    [line_width |-> LineWidth, stencil_test |-> FALSE, color_mask |-> TRUE,
     depth_test |-> TRUE, depth_mask |-> FALSE, blend |-> FALSE,
     cull_face |-> FALSE]

\* The pass returns with depth write as the loop left it.
DepthMask_kept(g) == g

\* gl::DepthMask(gl::TRUE) after the loop over the scenes (lines 151-153).
DepthMask_restore(g) == [g EXCEPT !.depth_mask = TRUE]

\* One step of an operation: what was done, for which scene slot, with which
\* matrix bound, under which graphics state, on how many elements.
Cmd(op, scene, wvp, g, n) ==
    [op |-> op, scene |-> scene, wvp |-> wvp, gl |-> g, n |-> n]

\* A counter that lives in the renderer and is returned again by the next call.
Statistics_kept == IF ret = None THEN [draw_calls |-> 0] ELSE Unwrap(ret)

\* RenderPassStatistics::default()
RenderPassStatistics_default == [draw_calls |-> 0]

\* self.lines.drain(..): the list is consumed by the pass.
Vec_drain(v) == << >>

\* self.lines.iter(): the list is read, and stays as it is.
Vec_iter(v) == v

\* A pass that uploads the vertices and forgets the index pairs.
Prologue_no_indices(w0, g0, g1, dropped, nv, nl) ==
    << Cmd("bind", 0, w0, g0, 0),
       Cmd("clear", 0, w0, g0, dropped),
       Cmd("set_vertices", 0, w0, g0, nv),
       Cmd("set_state", 0, w0, g1, 0) >>

\* The steps of a pass before its loop over the scenes (lines 104-129): bind
\* the shader, clear the staging, upload nv vertices and nl index pairs, set
\* the render state. w0 and g0 are the matrix and the state on entry.
Prologue(w0, g0, g1, dropped, nv, nl) ==
    << Cmd("bind", 0, w0, g0, 0),
       Cmd("clear", 0, w0, g0, dropped),
       Cmd("set_vertices", 0, w0, g0, nv),
       Cmd("set_lines", 0, w0, g0, nl),
       Cmd("set_state", 0, w0, g1, 0) >>

\* `break` in place of `continue`: the loop over the scenes ends.
Break(k, n) == n + 1

\* `continue`: on to the next scene.
Continue(k, n) == k + 1

RECURSIVE DrawScenes(_, _, _, _)
\* for scene in scenes.iter() { .. }: acc is [cmds, n, wvp_matrix, draw_calls],
\* n the number of lines the geometry buffer holds.
DrawScenes(sc, k, g, acc) ==
    IF k > Len(sc) THEN acc
    ELSE IF sc[k] = None THEN DrawScenes(sc, k + 1, g, acc)
    ELSE LET camera_node == find_camera(Unwrap(sc[k]).graph) IN
         IF camera_node = None
         THEN DrawScenes(sc, Continue(k, Len(sc)), g, acc)
         ELSE IF Unwrap(camera_node).kind # "Camera"
         THEN DrawScenes(sc, Continue(k, Len(sc)), g, acc)
         ELSE LET m == get_view_projection_matrix(Unwrap(camera_node)) IN
              DrawScenes(sc, k + 1, g,
                  [cmds |-> acc.cmds \o
                               << Cmd("set_wvp_matrix", k, m, g, 0),
                                  Cmd("draw", k, m, g, acc.n) >>,
                   n |-> acc.n,
                   wvp_matrix |-> m,
                   draw_calls |-> acc.draw_calls + 1])

-----------------------------------------------------------------------------
(* src/renderer/debug_renderer.rs: operations *)

InitRender ==
    /\ lines = << >>
    /\ vertices = << >>
    /\ line_indices = << >>
    /\ geometry = [vertices |-> << >>, lines |-> << >>]
    /\ shader = [bound |-> FALSE, wvp_matrix |-> "unset"]
    /\ gl = [line_width |-> 1, stencil_test |-> FALSE, color_mask |-> TRUE,
             depth_test |-> FALSE, depth_mask |-> TRUE, blend |-> FALSE,
             cull_face |-> FALSE]
    /\ scenes = << >>
    /\ cmds = << >>
    /\ ret = None

\* pub fn add_line(&mut self, line: Line)
add_line ==
    /\ Len(lines) < MaxLines
    /\ \E line \in LinePalette : lines' = Append(lines, line)
    /\ cmds' = << >>
    /\ ret' = None
    /\ UNCHANGED << vertices, line_indices, geometry, shader, gl, scenes,
                    asyncVars, poolVars, signalVars >>

\* pub fn clear_lines(&mut self)
clear_lines ==
    /\ lines' = << >>
    /\ cmds' = << >>
    /\ ret' = None
    /\ UNCHANGED << vertices, line_indices, geometry, shader, gl, scenes,
                    asyncVars, poolVars, signalVars >>

\* pub(in crate) fn render(&mut self, scenes: &SceneContainer) -> RenderPassStatistics
render ==
    LET staged == Stage(lines, vertices, line_indices)
        g0     == gl
        g1     == SetRenderState(g0)
        w0     == shader.wvp_matrix
        head   == Prologue(w0, g0, g1, Len(vertices), Len(staged.vertices),
                           Len(staged.line_indices))
        g2     == head[Len(head)].gl
        drawn  == DrawScenes(scenes, 1, g2,
                             [cmds |-> head, n |-> Len(staged.line_indices),
                              wvp_matrix |-> w0,
                              draw_calls |->
                                  RenderPassStatistics_default.draw_calls])
        g3     == DepthMask_restore(g2)
    IN /\ lines' = Vec_iter(lines)
       /\ vertices' = staged.vertices
       /\ line_indices' = staged.line_indices
       /\ geometry' = [vertices |-> staged.vertices,
                       lines |-> staged.line_indices]
       /\ shader' = [bound |-> TRUE, wvp_matrix |-> drawn.wvp_matrix]
       /\ gl' = g3
       /\ cmds' = Append(drawn.cmds,
                         Cmd("depth_mask", 0, drawn.wvp_matrix, g3, 0))
       /\ ret' = Some([draw_calls |-> drawn.draw_calls])
       /\ UNCHANGED << scenes,
                    asyncVars, poolVars, signalVars >>

\* Another pass of the renderer leaves the graphics state as it likes.
other_pass ==
    /\ \E g \in GLPalette : gl' = g
    /\ cmds' = << >>
    /\ ret' = None
    /\ UNCHANGED << lines, vertices, line_indices, geometry, shader, scenes,
                    asyncVars, poolVars, signalVars >>

\* The frame loop adds a scene to the container: a free slot is reused,
\* or the pool grows.
scenes_add ==
    /\ \E graph \in GraphPalette, k \in 1..MaxScenes :
          /\ k <= Len(scenes) + 1
          /\ k <= Len(scenes) => scenes[k] = None
          /\ scenes' = IF k <= Len(scenes)
                       THEN [scenes EXCEPT ![k] = Some([graph |-> graph])]
                       ELSE Append(scenes, Some([graph |-> graph]))
    /\ cmds' = << >>
    /\ ret' = None
    /\ UNCHANGED << lines, vertices, line_indices, geometry, shader, gl,
                    asyncVars, poolVars, signalVars >>

\* The frame loop removes a scene: its slot becomes free.
scenes_remove ==
    /\ \E k \in 1..Len(scenes) :
          /\ scenes[k] # None
          /\ scenes' = [scenes EXCEPT ![k] = None]
    /\ cmds' = << >>
    /\ ret' = None
    /\ UNCHANGED << lines, vertices, line_indices, geometry, shader, gl,
                    asyncVars, poolVars, signalVars >>

NextRender ==
    \/ add_line
    \/ clear_lines
    \/ render
    \/ other_pass
    \/ scenes_add
    \/ scenes_remove

-----------------------------------------------------------------------------
(* The handle pool and pose application (scene container, node graph) *)

\* Handle<T>: an index and a generation.
Handle(index, generation) == [index |-> index, generation |-> generation]

\* A node of the graph: which object it is, and its local transform.
Node(obj) == [obj |-> obj, local_transform |-> 0]

\* The local transforms a pose can hold for a node.
Transforms == {1, 2}

\* A slot of the pool: its generation and its object, None when free.
Slot(generation, payload) == [generation |-> generation, payload |-> payload]

\* A slot that keeps its generation over a remove or a reuse.
Generation_kept(generation) == generation

\* The generation of a slot after a remove or a reuse.
Generation_next(generation) == generation + 1

\* The free slots of a pool.
FreeSlots(p) == { i \in DOMAIN p : p[i].payload = None }

\* Pool::is_valid
Pool_is_valid(p, h) ==
    /\ h.index \in DOMAIN p
    /\ p[h.index].generation = h.generation
    /\ p[h.index].payload # None

\* Pool::index: the object of a valid handle, none for a stale one.
Pool_index(p, h) == IF Pool_is_valid(p, h) THEN p[h.index].payload ELSE None

\* Pool::add into the free slot i (0: no free slot, the pool grows).
Pool_add(p, i, value) ==
    IF i = 0
    THEN [pool |-> Append(p, Slot(1, Some(value))),
          handle |-> Handle(Len(p) + 1, 1)]
    ELSE [pool |-> [p EXCEPT ![i] = Slot(Generation_next(@.generation), Some(value))],
          handle |-> Handle(i, Generation_next(p[i].generation))]

\* Pool::remove: InvalidHandle for a stale handle, the pool unchanged.
Pool_remove(p, h) ==
    IF Pool_is_valid(p, h)
    THEN [pool |-> [p EXCEPT ![h.index] = Slot(Generation_next(@.generation), None)],
          ok |-> TRUE]
    ELSE [pool |-> p, ok |-> FALSE]

\* A pose entry written whatever the generation of its handle.
Pose_entry_always(graph, h) == h.index \in DOMAIN graph

\* Whether apply writes the entry of handle h into the graph.
Pose_entry_applies(graph, h) == Pool_is_valid(graph, h)

\* The write of one pose entry: fails on a slot without a node.
Pose_write(r, e) ==
    IF ~Pose_entry_applies(r.graph, e.node)
    THEN r
    ELSE IF r.graph[e.node.index].payload = None
         THEN [r EXCEPT !.ok = FALSE]
         ELSE [r EXCEPT !.graph[e.node.index].payload =
                   Some([Unwrap(@) EXCEPT !.local_transform = e.local_transform])]

\* Pose::apply(graph): each entry of the pose in turn.
RECURSIVE Pose_apply(_, _)
Pose_apply(r, entries) ==
    IF entries = {}
    THEN r
    ELSE LET e == CHOOSE x \in entries : TRUE
         IN Pose_apply(Pose_write(r, e), entries \ {e})

PoolOp(op, handle, ok) == [op |-> op, handle |-> handle, ok |-> ok]

\* One handle add has returned: the object it was returned for, and whether
\* that object has been removed since.
Issued(handle, obj, removed) == [handle |-> handle, obj |-> obj, removed |-> removed]

\* pool.add(value): a free slot is reused, otherwise the pool grows.
pool_add ==
    /\ Cardinality(issued) < MaxAdds
    /\ \E i \in (IF FreeSlots(node_pool) = {} THEN {0} ELSE FreeSlots(node_pool)) :
          LET obj == Cardinality(issued) + 1
              a == Pool_add(node_pool, i, Node(obj))
          IN /\ node_pool' = a.pool
             /\ issued' = issued \cup {Issued(a.handle, obj, FALSE)}
             /\ p_last' = PoolOp("add", a.handle, TRUE)
    /\ UNCHANGED << pose, asyncVars, renderVars, signalVars >>

\* pool.remove(handle), of any handle handed out so far.
pool_remove ==
    /\ \E x \in issued :
          LET d == Pool_remove(node_pool, x.handle)
          IN /\ node_pool' = d.pool
             /\ issued' = IF d.ok
                           THEN (issued \ {x}) \cup {Issued(x.handle, x.obj, TRUE)}
                           ELSE issued
             /\ p_last' = PoolOp("remove", x.handle, d.ok)
    /\ UNCHANGED << pose, asyncVars, renderVars, signalVars >>

\* animation.get_pose(): a local transform for each node the animation
\* targets, all of them nodes of the graph at this time.
get_pose ==
    /\ \E targets \in SUBSET { x.handle : x \in { y \in issued : Pool_is_valid(node_pool, y.handle) } } :
          /\ targets # {}
          /\ \E t \in [targets -> Transforms] :
                pose' = { [node |-> h, local_transform |-> t[h]] : h \in targets }
    /\ p_last' = PoolOp("get_pose", Handle(0, 0), TRUE)
    /\ UNCHANGED << node_pool, issued, asyncVars, renderVars, signalVars >>

\* pose.apply(&mut scene.graph)
apply ==
    /\ pose # {}
    /\ LET r == Pose_apply([graph |-> node_pool, ok |-> TRUE], pose)
       IN /\ node_pool' = r.graph
          /\ p_last' = PoolOp("apply", Handle(0, 0), r.ok)
    /\ UNCHANGED << issued, pose, asyncVars, renderVars, signalVars >>

NextPool ==
    \/ pool_add
    \/ pool_remove
    \/ get_pose
    \/ apply

-----------------------------------------------------------------------------
(* Signal property commands of the editor (signal.rs) *)

\* AnimationSignal: (id, time, name)
Signal(id, time, name) == [id |-> id, time |-> time, name |-> name]

\* The properties a command addresses by path, and the values of each.
Paths == {"time", "name"}
Times == {0, 1}
Names == {"a", "b"}
PathValues(path) == IF path = "time" THEN Times ELSE Names

\* The animation players of the scene when the first command is made: by
\* node handle, then by animation handle, the signals of the animation. Ids
\* are unique within an animation and repeat across animations.
AnimationPlayers ==
    << << << Signal(1, 0, "a"), Signal(2, 0, "a") >>,
          << Signal(1, 0, "a") >> >>,
       << << Signal(2, 0, "a"), Signal(1, 0, "a") >> >> >>

\* The signals of all animations, as (node handle, animation handle, index).
SignalRefs ==
    { r \in (DOMAIN signals) \X (1..2) \X (1..2) :
         /\ r[2] \in DOMAIN signals[r[1]]
         /\ r[3] \in DOMAIN signals[r[1]][r[2]] }

\* The first signal, whatever its id.
Signal_find_first(sigs, id) == IF sigs = << >> THEN 0 ELSE 1

\* signals_mut().iter_mut().find(|s| s.id == self.handle): the index of the
\* first signal with the id, 0 for none.
Signal_find(sigs, id) ==
    IF \E i \in DOMAIN sigs : sigs[i].id = id
    THEN CHOOSE i \in DOMAIN sigs :
            /\ sigs[i].id = id
            /\ \A j \in 1..(i - 1) : sigs[j].id # id
    ELSE 0

\* The entity getter of the command: the animation of the player, then the
\* signal; unwrap() requires that there is one.
Entity_getter(sg, cmd) ==
    Signal_find(sg[cmd.node_handle][cmd.animation_handle], cmd.handle)

Property_get(s, path) == IF path = "time" THEN s.time ELSE s.name

Property_set(s, path, value) ==
    IF path = "time" THEN [s EXCEPT !.time = value] ELSE [s EXCEPT !.name = value]

\* The command: the signal id, the path, the value, and the handle pair.
SetPropertyCommand(handle, path, value, node_handle, animation_handle) ==
    [handle |-> handle, path |-> path, value |-> value,
     node_handle |-> node_handle, animation_handle |-> animation_handle]

\* execute and revert: the value of the command and the property of the
\* entity change places.
Command_swap(sg, cmd) ==
    LET i == Entity_getter(sg, cmd)
        entity == sg[cmd.node_handle][cmd.animation_handle][i]
    IN [signals |-> [sg EXCEPT ![cmd.node_handle][cmd.animation_handle][i] =
                         Property_set(entity, cmd.path, cmd.value)],
        command |-> [cmd EXCEPT !.value = Property_get(entity, cmd.path)]]

SignalOp(op, cmd) ==
    [op |-> op, node_handle |-> cmd.node_handle,
     animation_handle |-> cmd.animation_handle, handle |-> cmd.handle,
     path |-> cmd.path]

\* A command is made for a signal of an animation and executed; the editor
\* keeps it for undo.
execute ==
    /\ Len(undo_stack) < MaxCommands
    /\ \E r \in SignalRefs, path \in Paths :
          \E value \in PathValues(path) :
             LET cmd == SetPropertyCommand(signals[r[1]][r[2]][r[3]].id, path, value,
                                           r[1], r[2])
                 w == Command_swap(signals, cmd)
             IN /\ Entity_getter(signals, cmd) # 0
                /\ signals' = w.signals
                /\ undo_stack' = Append(undo_stack, w.command)
                /\ snapshots' = Append(snapshots, signals)
                /\ s_last' = SignalOp("execute", cmd)
    /\ UNCHANGED << asyncVars, renderVars, poolVars >>

\* Undo: the last executed command is reverted.
revert ==
    /\ undo_stack # << >>
    /\ LET cmd == undo_stack[Len(undo_stack)]
           w == Command_swap(signals, cmd)
       IN /\ Entity_getter(signals, cmd) # 0
          /\ signals' = w.signals
          /\ undo_stack' = SubSeq(undo_stack, 1, Len(undo_stack) - 1)
          /\ snapshots' = SubSeq(snapshots, 1, Len(snapshots) - 1)
          /\ s_last' = SignalOp("revert", cmd)
    /\ UNCHANGED << asyncVars, renderVars, poolVars >>

NextSignal ==
    \/ execute
    \/ revert

-----------------------------------------------------------------------------
(* Specifications *)

InitAsync ==
    /\ ctx_lock = "free"
    /\ data = None
    /\ message = ""
    /\ progress = 0
    /\ rm_lock = "free"
    /\ rm_poisoned = FALSE
    /\ l_pc = "not_spawned"
    /\ l_guard = FALSE
    /\ l_scene = None
    /\ l_model_handle = HandleNONE
    /\ l_walk_animation = HandleNONE
    /\ load_error = "none"
    /\ m_pc = "set_textures_path"
    /\ polled = "none"
    /\ scene_handle = HandleNONE
    /\ model_handle = HandleNONE
    /\ walk_animation = HandleNONE
    /\ engine_scenes = << >>
    /\ model_angle = 180
    /\ input_controller = [rotate_left |-> FALSE, rotate_right |-> FALSE]
    /\ ui = [visible |-> TRUE, progress |-> 0, text |-> ""]
    /\ ticks = 0
    /\ accessed = FALSE
    /\ acquired = [t \in {"main", "loader"} |-> {}]
    /\ adds = 0
    /\ data_writes = 0

InitPool ==
    /\ node_pool = << >>
    /\ issued = {}
    /\ pose = {}
    /\ p_last = PoolOp("none", Handle(0, 0), TRUE)

InitSignal ==
    /\ signals = AnimationPlayers
    /\ undo_stack = << >>
    /\ snapshots = << >>
    /\ s_last = SignalOp("none", SetPropertyCommand(0, "", 0, 0, 0))

Init == InitAsync /\ InitRender /\ InitPool /\ InitSignal

Next == Main \/ Loader

Spec == Init /\ [][Next]_vars

SpecRender == Init /\ [][NextRender]_vars

SpecPool == Init /\ [][NextPool]_vars

SpecSignal == Init /\ [][NextSignal]_vars

-----------------------------------------------------------------------------
(* Claims about the asynchronous load (specification Spec) *)

\* Every construction step of the closure has been applied to the scene.
Complete(s) == s.camera /\ s.model /\ s.scaled /\ s.animations > 0

\* The statements during which the loader holds a context guard.
ContextStatements == ReportPcs \cup {"write_data"}

\* The statements that build the scene or load an asset.
ConstructionStatements ==
    {"add_camera", "request_model", "instantiate_geometry", "set_scale",
     "request_animation", "retarget_animations"}

TickPcs == {"take_data", "report_ui", "update_scene", "engine_update"}

\* The steps of one iteration of the fixed-step loop.
MainTick ==
    \/ M_try_lock
    \/ M_take_data
    \/ M_report_ui
    \/ M_update_scene
    \/ M_engine_update

\* C1: whenever the main thread holds the context lock, data is None or a
\* GameScene whose construction is finished (camera, model, scale, retargeted
\* animation, both handles set); and once data is written the loader no
\* longer owns the scene and is past every construction step.
C1_NoPartialScene ==
    /\ ctx_lock = "main" =>
          \/ data = None
          \/ /\ Complete(Unwrap(data).scene)
             /\ Unwrap(data).model_handle # HandleNONE
             /\ Unwrap(data).walk_animation # HandleNONE
    /\ data # None => l_scene = None /\ l_pc \in {"exit", "done"}

\* C1 witness: the main thread holds the lock and sees the finished scene.
C1_Witness ==
    ctx_lock = "main" /\ m_pc = "take_data" /\ data # None

\* C2: the poll never waits: whenever the main thread is about to poll or is
\* inside an iteration, it has a step to take, whatever the loader does; in
\* particular with the context mutex held by the loader.
C2_PollNeverBlocks ==
    (m_pc \in TickPcs \/ m_pc = "loop") => ENABLED MainTick

\* C2 witness: an iteration whose poll was skipped has reached engine.update
\* while the loader holds the context mutex.
C2_Witness ==
    polled = "skipped" /\ m_pc = "engine_update" /\ ctx_lock = "loader"

\* C3: engine.scenes.add runs at most once, scene_handle is assigned at most
\* once (only together with that add), and the loader writes data at most
\* once.
C3_TransferAtMostOnce ==
    /\ adds <= 1
    /\ data_writes <= 1
    /\ Len(engine_scenes) = adds
    /\ (scene_handle # HandleNONE) <=> (adds = 1)

\* C3 witness: the scene was added, and a later iteration polled the context
\* again (the pose is applied after the poll of the iteration that took it).
C3_Witness ==
    /\ adds = 1
    /\ m_pc = "report_ui"
    /\ engine_scenes[scene_handle].posed

\* The strings the loader ever stores in message.
ProgressMessages ==
    {"Starting.."} \cup {Report(pc).message : pc \in ReportPcs}

\* C4: a failed resource request is surfaced through the context: the loader
\* has not crashed and the message is a failure message.
C4_FailureSurfaced ==
    load_error # "none" =>
        l_pc # "panicked" /\ message \notin ProgressMessages

\* C5: the loader holds the context mutex only inside a report_progress
\* statement or the statement that writes data, never across a construction
\* or loading statement.
C5_ShortCriticalSections ==
    ctx_lock = "loader" => l_guard /\ l_pc \in ContextStatements

\* C5 witness: between two loader statements the main thread has locked the
\* context and reads the intermediate progress.
C5_Witness ==
    ctx_lock = "main" /\ m_pc = "report_ui" /\ progress = 33
        /\ l_pc = "request_model"

\* C6: the context is the only mutex both threads lock, and the loader holds
\* no lock across its construction and loading statements.
C6_OnlyContextShared ==
    /\ (acquired["main"] \cap acquired["loader"]) \subseteq {"context"}
    /\ l_pc \in ConstructionStatements =>
          rm_lock # "loader" /\ ctx_lock # "loader"

-----------------------------------------------------------------------------
(* Claims about the debug renderer (specification SpecRender) *)

\* The last operation was a render pass (it returned statistics).
Rendered == ret # None

\* The slots of the container that hold a scene whose graph has a camera.
ScenesWithCamera ==
    { k \in 1..Len(scenes) :
        /\ scenes[k] # None
        /\ \E j \in 1..Len(Unwrap(scenes[k]).graph) :
              /\ Unwrap(scenes[k]).graph[j] # None
              /\ Unwrap(Unwrap(scenes[k]).graph[j]).kind = "Camera" }

\* The positions of the draw commands of the last operation.
Draws == { d \in 1..Len(cmds) : cmds[d].op = "draw" }

\* C7: render returns draw_calls equal to the number of scenes whose graph
\* holds a camera, whatever the number of lines; exactly those scenes are
\* drawn, each once.
C7_DrawCallsCountCameraScenes ==
    Rendered =>
        /\ Unwrap(ret).draw_calls = Cardinality(ScenesWithCamera)
        /\ Cardinality(Draws) = Cardinality(ScenesWithCamera)
        /\ { cmds[d].scene : d \in Draws } = ScenesWithCamera

\* C7 witness: two lines, a scene without a camera in the first slot, and the
\* scene after it is still drawn.
C7_Witness ==
    /\ Rendered
    /\ Len(lines) = 2
    /\ Len(scenes) >= 2
    /\ scenes[1] # None
    /\ 1 \notin ScenesWithCamera
    /\ 2 \in ScenesWithCamera
    /\ Unwrap(ret).draw_calls = 1

\* C8: at every draw command depth test is on, depth write off, blending
\* off, culling off and the line width is LineWidth, whatever the state at
\* the start of the pass.
C8_StateAtDraws ==
    \A d \in Draws :
        /\ cmds[d].gl.depth_test
        /\ ~cmds[d].gl.depth_mask
        /\ ~cmds[d].gl.blend
        /\ ~cmds[d].gl.cull_face
        /\ cmds[d].gl.line_width = LineWidth

\* C8 witness: a pass that started with depth test off, depth write on,
\* blending and culling on and another line width has drawn.
C8_Witness ==
    /\ Draws # {}
    /\ ~cmds[1].gl.depth_test
    /\ cmds[1].gl.depth_mask
    /\ cmds[1].gl.blend
    /\ cmds[1].gl.cull_face
    /\ cmds[1].gl.line_width # LineWidth

\* C9: after a pass over N lines the staged buffers hold 2N vertices and N
\* index pairs: line k (from 0) gives vertex 2k (begin) and 2k+1 (end), both
\* with the line's colour, and the pair [2k, 2k+1]; nothing staged by earlier
\* passes remains.
C9_StagingMatchesLines ==
    Rendered =>
        /\ Len(vertices) = 2 * Len(lines)
        /\ Len(line_indices) = Len(lines)
        /\ \A k \in 1..Len(lines) :
              /\ vertices[2 * k - 1] =
                    Vertex(lines[k].begin, Color_into_u32(lines[k].color))
              /\ vertices[2 * k] =
                    Vertex(lines[k].end, Color_into_u32(lines[k].color))
              /\ line_indices[k] = << 2 * (k - 1), 2 * (k - 1) + 1 >>

\* C9 witness: a pass over one line that followed a pass over two lines:
\* the four vertices staged before were dropped, two are staged now.
C9_Witness ==
    /\ Rendered
    /\ Len(lines) = 1
    /\ cmds[2].op = "clear"
    /\ cmds[2].n = 4
    /\ Len(vertices) = 2
    /\ geometry.vertices = vertices

\* The first camera node of a graph in pool order.
FirstCamera(graph) ==
    LET cams == { j \in 1..Len(graph) :
                    graph[j] # None /\ Unwrap(graph[j]).kind = "Camera" }
        first == CHOOSE j \in cams : \A i \in cams : j <= i
    IN Unwrap(graph[first])

\* C10: the matrix bound at each draw is the view-projection matrix of the
\* first camera, in pool order, of the graph of the scene drawn.
C10_FirstCameraMatrix ==
    \A d \in Draws :
        /\ cmds[d].scene \in ScenesWithCamera
        /\ cmds[d].wvp =
              FirstCamera(Unwrap(scenes[cmds[d].scene]).graph).view_projection

\* C10 witness: two scenes drawn with different matrices, one of them a
\* scene with two cameras whose first camera is not the first slot.
C10_Witness ==
    \E d, e \in Draws :
        /\ cmds[d].wvp = "vpB"
        /\ cmds[e].wvp = "vpA"
        /\ Len(Unwrap(scenes[cmds[d].scene]).graph) = 4

\* The positions of the steps of the last operation that are `op`.
Steps(op) == { d \in 1..Len(cmds) : cmds[d].op = op }

\* C11: the statistics a render call returns count exactly the draws of that
\* call: one per draw step, starting from zero whatever earlier calls
\* returned, and no scene slot is drawn (counted) twice.
C11_StatisticsCountThisCall ==
    Rendered =>
        /\ Unwrap(ret).draw_calls = Cardinality(Steps("draw"))
        /\ \A d, e \in Steps("draw") :
              cmds[d].scene = cmds[e].scene => d = e

\* C11 witness: a pass that follows a pass which drew (the matrix of that
\* draw is still set on entry) draws two scenes and returns two.
C11_Witness ==
    /\ Rendered
    /\ cmds[1].op = "bind"
    /\ cmds[1].wvp # "unset"
    /\ Unwrap(ret).draw_calls = 2

\* C19: a step changes the line list only by appending one line or by
\* emptying it, and a render pass leaves it as it is.
C19_LinesChangeOnlyByAddAndClear ==
    [][ /\ (ret' # None) => lines' = lines
        /\ lines' # lines =>
              \/ lines' = << >>
              \/ /\ Len(lines') = Len(lines) + 1
                 /\ SubSeq(lines', 1, Len(lines)) = lines
                 /\ lines'[Len(lines')] \in LinePalette ]_vars

\* C19 witness: a pass over two lines that follows a pass which staged the
\* same number of lines: the list survived the earlier pass.
C19_Witness ==
    /\ Rendered
    /\ Len(lines) = 2
    /\ cmds[2].op = "clear"
    /\ cmds[2].n = 4
    /\ Len(vertices) = 4

\* C20: in a render pass the staging is cleared and uploaded once (vertices,
\* then index pairs), then the render state is set, and every draw comes
\* after these steps, however many scenes are drawn; depth write is restored
\* after the last draw.
C20_PassOrder ==
    Rendered =>
        /\ Len(cmds) >= 6
        /\ << cmds[1].op, cmds[2].op, cmds[3].op, cmds[4].op, cmds[5].op >>
              = << "bind", "clear", "set_vertices", "set_lines", "set_state" >>
        /\ Steps("clear") = {2}
        /\ Steps("set_vertices") = {3}
        /\ Steps("set_lines") = {4}
        /\ Steps("set_state") = {5}
        /\ \A d \in Steps("draw") : 5 < d /\ d < Len(cmds)
        /\ cmds[Len(cmds)].op = "depth_mask"

\* C20 witness: a pass that drew two scenes after a single upload of two lines.
C20_Witness ==
    /\ Rendered
    /\ Cardinality(Steps("draw")) = 2
    /\ cmds[4].n = 2

-----------------------------------------------------------------------------
(* Claims about the asynchronous load, continued *)

\* The steps of the main thread that are its own (key events come from outside).
MainProgram == M_set_textures_path \/ M_create_scene_async \/ MainTick

\* Both threads keep running: the main thread takes its next step, the
\* loader too, and a loader that waits for the context mutex gets it, since
\* the main thread holds it only for part of an iteration, again and again.
SpecLive ==
    /\ Spec
    /\ WF_vars(MainProgram)
    /\ WF_vars(Loader)
    /\ SF_vars(L_lock_context)

\* Both loads succeed: the model and the animation are requested and
\* obtained (lines 174-203), so no unwrap() of the loader fails.
LoadsSucceed == load_error = "none"

\* C15: if both loads succeed, the loader ends with data written and both
\* mutexes released, and the main loop takes the data: from some point on
\* scene_handle is a handle of a scene in the engine, for good.
C15_HandoffHappens ==
    []LoadsSucceed =>
        <>[](/\ l_pc = "done"
             /\ ctx_lock # "loader"
             /\ rm_lock # "loader"
             /\ data = None
             /\ scene_handle # HandleNONE
             /\ scene_handle \in DOMAIN engine_scenes)

\* C15 witness: the loader is done, nothing is locked and the scene is in
\* the engine.
C15_Witness ==
    /\ l_pc = "done"
    /\ ctx_lock = "free"
    /\ rm_lock = "free"
    /\ data = None
    /\ scene_handle \in DOMAIN engine_scenes

\* C16: scene_handle, model_handle and walk_animation are all NONE or all
\* set; an iteration borrows the scene only with scene_handle set, and a
\* scene is posed or rotated only after the handoff.
C16_HandlesTogether ==
    /\ (scene_handle = HandleNONE) <=> (model_handle = HandleNONE)
    /\ (scene_handle = HandleNONE) <=> (walk_animation = HandleNONE)
    /\ accessed => scene_handle # HandleNONE /\ adds = 1
    /\ m_pc # "panicked"
    /\ scene_handle = HandleNONE => model_angle = 180

\* C16 witness: the iteration that took the data has borrowed the scene.
C16_Witness ==
    /\ accessed
    /\ polled = "locked"
    /\ scene_handle # HandleNONE
    /\ model_handle # HandleNONE
    /\ walk_animation # HandleNONE
    /\ engine_scenes[scene_handle].posed

ProgressValues == {0, 33, 66, 100}

\* C17: progress, and the value the main thread last read from it, are
\* always one of 0.0, 0.33, 0.66, 1.0, and no step decreases either.
C17_ProgressMonotone ==
    /\ [](progress \in ProgressValues /\ ui.progress \in ProgressValues)
    /\ [][progress' >= progress /\ ui.progress' >= ui.progress]_vars

\* C17 witness: the main thread, having read 0.66 in an earlier poll, holds
\* the lock and is about to read 1.0.
C17_Witness ==
    /\ m_pc = "report_ui"
    /\ ui.progress = 66
    /\ progress = 100

\* The pairs one report_progress call, or the construction of the context,
\* writes.
MatchedPairs ==
    { << 0, "Starting.." >>, << 0, "Creating camera..." >>,
      << 33, "Loading model..." >>, << 66, "Loading animation..." >>,
      << 100, "Done" >> }

\* C18: once the context exists, whenever its mutex is free (progress,
\* message) is one of the matched pairs, and data is present only together
\* with (1.0, "Done").
C18_MatchedPair ==
    (ctx_lock = "free" /\ m_pc \notin {"set_textures_path", "create_scene_async"})
        => /\ << progress, message >> \in MatchedPairs
           /\ data # None => progress = 100 /\ message = "Done"

\* C18 witness: the mutex is free, the pair is (1.0, "Done") and data is not
\* yet written: the converse does not hold.
C18_Witness ==
    /\ ctx_lock = "free"
    /\ progress = 100
    /\ message = "Done"
    /\ data = None
    /\ l_pc = "write_data"
    /\ data_writes = 0

-----------------------------------------------------------------------------
(* Claims about the handle pool and pose application (specification SpecPool) *)

\* C13: after any sequence of add and remove, a handle returned by add is
\* valid and resolves to its own object until that object is removed, and is
\* invalid from then on, also when a later add reuses its slot; no two adds
\* return the same handle.
C13_StaleHandlesInvalid ==
    /\ \A x \in issued :
          IF x.removed
          THEN /\ ~Pool_is_valid(node_pool, x.handle)
               /\ Pool_index(node_pool, x.handle) = None
          ELSE /\ Pool_is_valid(node_pool, x.handle)
               /\ Unwrap(Pool_index(node_pool, x.handle)).obj = x.obj
    /\ \A x, y \in issued : x.handle = y.handle => x = y
    /\ p_last.op = "add" => Pool_is_valid(node_pool, p_last.handle)
    /\ p_last.op = "remove" => ~Pool_is_valid(node_pool, p_last.handle)

\* C13 witness: an add has just reused the slot of a removed object; the old
\* handle and the new one differ in generation only.
C13_Witness ==
    /\ p_last.op = "add"
    /\ \E x, y \in issued :
          /\ x.removed
          /\ ~y.removed
          /\ y.handle = p_last.handle
          /\ x.handle.index = y.handle.index
          /\ x.handle.generation # y.handle.generation

\* The entries of the pose that target the node in slot i of the graph.
Targeting(i) == { e \in pose : e.node.index = i /\ Pool_is_valid(node_pool, e.node) }

\* C14: an apply does not fail; it writes the local transform of each node a
\* pose entry targets with a handle still valid, and leaves every other slot
\* of the graph as it was, the reused slot of a removed node included.
C14_ApplySkipsStale ==
    [][p_last'.op = "apply" =>
          /\ p_last'.ok
          /\ DOMAIN node_pool' = DOMAIN node_pool
          /\ \A i \in DOMAIN node_pool :
                IF Targeting(i) = {}
                THEN node_pool'[i] = node_pool[i]
                ELSE /\ node_pool'[i].generation = node_pool[i].generation
                     /\ Unwrap(node_pool'[i].payload).obj = Unwrap(node_pool[i].payload).obj
                     /\ \E e \in Targeting(i) :
                           Unwrap(node_pool'[i].payload).local_transform = e.local_transform
    ]_vars

\* C14 witness: an apply has written a node that is still valid and skipped
\* an entry whose node was removed and whose slot holds another node now.
C14_Witness ==
    /\ p_last.op = "apply"
    /\ p_last.ok
    /\ \E e \in pose :
          /\ Pool_is_valid(node_pool, e.node)
          /\ Unwrap(Pool_index(node_pool, e.node)).local_transform = e.local_transform
    /\ \E e \in pose :
          /\ ~Pool_is_valid(node_pool, e.node)
          /\ node_pool[e.node.index].payload # None
          /\ Unwrap(node_pool[e.node.index].payload).local_transform # e.local_transform

-----------------------------------------------------------------------------
(* Claims about signal property commands (specification SpecSignal) *)

\* The signals that differ before and after a step.
Modified == { r \in SignalRefs : signals'[r[1]][r[2]][r[3]] # signals[r[1]][r[2]][r[3]] }

-----------------------------------------------------------------------------
(* Claims about the debug renderer, continued *)

\* The render state the pass sets and does not touch again.
StateKeptAsSet ==
    {"line_width", "stencil_test", "color_mask", "depth_test", "blend", "cull_face"}

\* C21: when render returns depth write is enabled, whatever the scene
\* container holds and whatever the state was on entry; the pass had it
\* disabled, and every other piece of state it set is still as it set it:
\* line width 2, stencil test off, colour mask on, depth test on, blending
\* off, face culling off.
C21_DepthWriteRestored ==
    Rendered =>
        /\ gl.depth_mask = TRUE
        /\ cmds[Len(cmds)].op = "depth_mask"
        /\ cmds[Len(cmds)].gl = gl
        /\ cmds[5].op = "set_state"
        /\ cmds[5].gl.depth_mask = FALSE
        /\ \A f \in StateKeptAsSet : gl[f] = cmds[5].gl[f]
        /\ gl.line_width = 2
        /\ gl.stencil_test = FALSE
        /\ gl.color_mask = TRUE
        /\ gl.depth_test = TRUE
        /\ gl.blend = FALSE
        /\ gl.cull_face = FALSE

\* C21 witness: a pass over a container whose only scene has no camera,
\* entered with depth write off and face culling on, has returned: nothing
\* was drawn, depth write is on and face culling is off, not as on entry.
C21_Witness ==
    /\ Rendered
    /\ Len(scenes) = 1
    /\ scenes[1] # None
    /\ ScenesWithCamera = {}
    /\ Draws = {}
    /\ cmds[1].gl.depth_mask = FALSE
    /\ cmds[1].gl.cull_face = TRUE
    /\ gl.depth_mask = TRUE
    /\ gl.cull_face = FALSE

=============================================================================
